---- MODULE Spec2Model ----
(***************************************************************************)
(* Position ledger of the finm portfolio tracker.                          *)
(*                                                                         *)
(* The model covers PortfolioService.add_transaction (the ledger write     *)
(* path), PortfolioService.update_portfolio_prices (the price refresh),    *)
(* the Asset and Transaction tables with their uniqueness constraints,     *)
(* and the market-data provider as a nondeterministic collaborator.        *)
(*                                                                         *)
(* Database semantics: the tables hold committed rows.  A request inside   *)
(* `with db_transaction.atomic()` reads committed rows; the code reads     *)
(* with a plain filter().first() and never calls select_for_update, so the *)
(* read takes no lock.  Its first write takes the row, which it holds      *)
(* until the block commits or rolls back, and no read follows that write:  *)
(* to every other request the write, the insertion of the Transaction and  *)
(* the end of the block are one step, taken when the row is free.          *)
(*                                                                         *)
(* Decimals are modelled as integers counted in the smallest unit of the   *)
(* column (10^-6 for quantities and positions, 10^-2 for prices), so every *)
(* modelled quantity is representable in its column.                       *)
(***************************************************************************)
EXTENDS Integers, Sequences, FiniteSets, TLC

\* ---------------------------------------------------------------- bounds
\* Largest clock value of the sequential and the refresh specifications;
\* their timestamps range over 0..MaxTime.
MaxTime == 1
\* Largest clock value of the concurrent specification.
MaxRaceTime == 2
\* Largest quantity of a request of the sequential specification.
MaxQty == 2
\* Largest primary key the Portfolio table hands out.
MaxPortfolioId == 4

Procs == {"w1", "w2"}
Portfolios == {"p1", "p2"}
Users == {"u1", "u2", "u3", "u4"}
\* The primary keys of the Portfolio table, in the order it hands them out.
PortfolioIds == <<"p1", "p2", "p3", "p4", "p5", "p6">>

\* ------------------------------------------------------------- constants
ASSET_TYPES == {"stock_us", "stock_au", "crypto"}
TRANSACTION_TYPES == {"buy", "sell"}

AX == <<".", "A", "X">>
USD == <<"-", "U", "S", "D">>

\* The absent value of a nullable field or of an optional dict key.
None == <<>>
Some(v) == <<v>>

\* Python's None where the model keeps an integer or a string: the timestamp
\* and the asset type of a call that was given none.  No clock reading and no
\* asset type equals them.
NoTimestamp == 0 - 1
NoAssetType == "None"

\* -------------------------------------------------------------- variables
VARIABLES
    assets,        \* committed Asset rows
    transactions,  \* committed Transaction rows
    now,           \* timezone.now()
    pc,            \* position of each request handler in add_transaction
    req,           \* the arguments of the call each handler is serving
    symbol,        \* the handler's standardized asset_symbol
    asset,         \* the handler's in-memory Asset object (None or Some(row))
    fetched,       \* whether the handler called ExternalAPIService.fetch_asset_info
    asset_info,    \* what that call returned (None before it and when it raised)
    result,        \* outcome of the handler's call
    cache,         \* portfolio_prices_<id> cache entries
    rpc,           \* position of the price refresh
    rportfolio,    \* portfolio being refreshed
    rassets,       \* Asset objects the refresh loop still has to visit
    users,         \* committed User rows
    portfolio_objects, \* committed Portfolio rows
    last_id,       \* number of primary keys the Portfolio table has handed out
    post_save,     \* users saved whose post_save signal has not yet run
    posted,        \* the body of the POST each handler's transaction view is serving
    invoked,       \* the add_transaction calls the view made for that POST
    response       \* status of the last response of each handler

vars == <<assets, transactions, now, pc, req, symbol, asset, fetched,
          asset_info, result, cache, rpc, rportfolio, rassets,
          users, portfolio_objects, last_id, post_save,
          posted, invoked, response>>

ledgerVars == <<pc, req, symbol, asset, fetched, asset_info, result>>
refreshVars == <<cache, rpc, rportfolio, rassets>>
accountVars == <<users, portfolio_objects, last_id, post_save>>
viewVars == <<posted, invoked, response>>
webVars == <<accountVars, viewVars>>

\* ------------------------------------------------------------- strings
endswith(s, suffix) ==
    /\ Len(s) >= Len(suffix)
    /\ SubSeq(s, Len(s) - Len(suffix) + 1, Len(s)) = suffix

\* ------------------------------------------------------------- requests
\* A call add_transaction(portfolio, asset_symbol, asset_type,
\* transaction_type, quantity, price, timestamp).
Request(pf, sym, ty, kind, q, pr, ts) ==
    [portfolio |-> pf, asset_symbol |-> sym, asset_type |-> ty,
     transaction_type |-> kind, quantity |-> q, price |-> pr, timestamp |-> ts]

\* The value req[p] has while handler p serves no call.
NoRequest == Request("p1", <<>>, "", "", 0, 0, 0)

\* -------------------------------------------------------------- tables
Key(row) == <<row.portfolio, row.symbol>>

\* The assets of the symbol, whatever their portfolio.
AssetRows_any_portfolio(db, pf, sym) == {a \in db : a.symbol = sym}

\* The assets of the portfolio, whatever their symbol.
AssetRows_any_symbol(db, pf, sym) == {a \in db : a.portfolio = pf}

\* Asset.objects.filter(portfolio=portfolio, symbol=asset_symbol)
AssetRows(db, pf, sym) == {a \in db : a.portfolio = pf /\ a.symbol = sym}

\* ... .first(): None when the queryset is empty
first(rows) == IF rows = {} THEN None ELSE Some(CHOOSE a \in rows : TRUE)

\* No uniqueness constraint on Transaction.
TimestampTaken_never(txs, pf, ts) == FALSE

\* Transaction.Meta.unique_together = ['portfolio', 'timestamp']
TimestampTaken(txs, pf, ts) ==
    \E t \in txs : t.portfolio = pf /\ t.timestamp = ts

\* No uniqueness constraint on Asset.
SymbolTaken_never(db, pf, sym) == FALSE

\* Asset.Meta.unique_together = ['portfolio', 'symbol']
SymbolTaken(db, pf, sym) == AssetRows(db, pf, sym) # {}

\* Leaving the atomic block normally after asset.save(): the written Asset
\* row replaces the committed row of the same key (save() writes every
\* column of the row).
Commit(db, st) ==
    IF st = None THEN db
    ELSE {a \in db : Key(a) # Key(st[1])} \cup {st[1]}

\* Leaving the atomic block normally after Asset.objects.create(): the
\* table has one more row.
Insert(db, st) == db \cup {st[1]}

\* A block without rollback: the written row survives the exception.
Rollback_keeps_write(db, st) == Commit(db, st)

\* Leaving the atomic block with an exception: the written row is dropped.
Rollback(db, st) == db

\* ------------------------------------------------ market data provider
\* ticker.info as returned by yfinance: each key may be missing.
TickerInfos ==
    { [longName |-> None, name |-> None, bid |-> None, open |-> None,
       sector |-> None],
      [longName |-> Some(<<"N">>), name |-> Some(<<"C">>), bid |-> Some(1),
       open |-> Some(2), sector |-> Some("Technology")] }

\* The ticker whose info has every key.
FullInfos == {info \in TickerInfos : info.bid # None}

\* dict.get(key, default)
get(entry, default) == IF entry = None THEN default ELSE entry[1]

_fetch_us_stock_info(asset_symbol, info) ==
    [name |-> get(info.longName, asset_symbol),
     last_price |-> get(info.bid, 0),
     sector |-> get(info.sector, "Unknown")]

_fetch_au_stock_info(asset_symbol, info) ==
    [name |-> get(info.longName, asset_symbol),
     last_price |-> get(info.bid, 0),
     sector |-> "Aus Equity"]

_fetch_crypto_info(asset_symbol, info) ==
    [name |-> get(info.name, asset_symbol),
     last_price |-> get(info.open, 0),
     sector |-> "Cryptocurrency"]

fetch_asset_info(asset_symbol, asset_type, info) ==
    IF asset_type = "stock_us" THEN _fetch_us_stock_info(asset_symbol, info)
    ELSE IF asset_type = "stock_au" THEN _fetch_au_stock_info(asset_symbol, info)
    ELSE _fetch_crypto_info(asset_symbol, info)

\* ------------------------------------------------------ add_transaction
\* The price test ahead of the quantity test.
check_parameters_price_first(r, t) ==
    IF r.price <= 0 THEN "InvalidPrice"
    ELSE IF r.quantity <= 0 THEN "InvalidQuantity"
    ELSE IF r.timestamp > t THEN "FutureTimestamp"
    ELSE IF r.asset_type \notin ASSET_TYPES THEN "InvalidAssetClass"
    ELSE "ok"

\* No timestamp test.
check_parameters_any_time(r, t) ==
    IF r.quantity <= 0 THEN "InvalidQuantity"
    ELSE IF r.price <= 0 THEN "InvalidPrice"
    ELSE IF r.asset_type \notin ASSET_TYPES THEN "InvalidAssetClass"
    ELSE "ok"

\* Strict comparisons: zero passes the quantity and the price test.
check_parameters_zero_passes(r, t) ==
    IF r.quantity < 0 THEN "InvalidQuantity"
    ELSE IF r.price < 0 THEN "InvalidPrice"
    ELSE IF r.timestamp > t THEN "FutureTimestamp"
    ELSE IF r.asset_type \notin ASSET_TYPES THEN "InvalidAssetClass"
    ELSE "ok"

\* No asset type test: the symbol of an unknown type is taken as typed.
check_parameters_any_class(r, t) ==
    IF r.quantity <= 0 THEN "InvalidQuantity"
    ELSE IF r.price <= 0 THEN "InvalidPrice"
    ELSE IF r.timestamp > t THEN "FutureTimestamp"
    ELSE "ok"

\* Lines 44-49 and the final else of lines 52-61: the first failing check
\* decides the exception.  The messages of the code are named after the
\* error taxonomy:
\*   "Transaction quantity must be greater than zero"     InvalidQuantity
\*   "Transaction price must be greater than zero"        InvalidPrice
\*   "Transaction timestamp cannot be in the future"      FutureTimestamp
\*   ValueError("Invalid asset type")                     InvalidAssetClass
\* and None > timezone.now() raises                        TypeError
check_parameters(r, t) ==
    IF r.quantity <= 0 THEN "InvalidQuantity"
    ELSE IF r.price <= 0 THEN "InvalidPrice"
    ELSE IF r.timestamp = NoTimestamp THEN "TypeError"
    ELSE IF r.timestamp > t THEN "FutureTimestamp"
    ELSE IF r.asset_type \notin ASSET_TYPES THEN "InvalidAssetClass"
    ELSE "ok"

\* The suffix appended whether or not the symbol already ends with it.
standardize_always_appends(asset_symbol, asset_type) ==
    IF asset_type = "stock_au" THEN asset_symbol \o AX
    ELSE IF asset_type = "crypto" THEN asset_symbol \o USD
    ELSE asset_symbol

\* Lines 52-59: standardize the symbol for the asset type.
standardize(asset_symbol, asset_type) ==
    IF asset_type = "stock_us" THEN asset_symbol
    ELSE IF asset_type = "stock_au"
         THEN IF endswith(asset_symbol, AX) THEN asset_symbol
              ELSE asset_symbol \o AX
    ELSE IF asset_type = "crypto"
         THEN IF endswith(asset_symbol, USD) THEN asset_symbol
              ELSE asset_symbol \o USD
    ELSE asset_symbol

\* A sufficiency test that also refuses the sale of the whole position.
insufficient_or_equal(position, quantity) == position <= quantity

\* No sufficiency test.
insufficient_never(position, quantity) == FALSE

\* Line 72: the sufficiency test of a sell.
insufficient(position, quantity) == position < quantity

\* A sell that leaves the position as it was.
new_position_sell_ignored(transaction_type, position, quantity) ==
    IF transaction_type = "sell" THEN position
    ELSE position + quantity

\* Lines 74 and 77: the new position of an existing asset.
new_position(transaction_type, position, quantity) ==
    IF transaction_type = "sell" THEN position - quantity
    ELSE position + quantity

\* The execution price of the buy stored as the last price of the Asset.
new_asset_trade_price(r, sym, info) ==
    [portfolio |-> r.portfolio, symbol |-> sym, name |-> info.name,
     asset_type |-> r.asset_type, position |-> r.quantity,
     last_price |-> Some(r.price), sector |-> info.sector]

\* Lines 89-97: the Asset built on the first buy of a symbol.
new_asset(r, sym, info) ==
    [portfolio |-> r.portfolio, symbol |-> sym, name |-> info.name,
     asset_type |-> r.asset_type, position |-> r.quantity,
     last_price |-> Some(info.last_price), sector |-> info.sector]

\* The execution price also assigned to last_price.
updated_asset_marks_price(row, r) ==
    [row EXCEPT !.position =
                   new_position(r.transaction_type, row.position, r.quantity),
                !.last_price = Some(r.price)]

\* Lines 74 and 77: the in-memory Asset object after the position update;
\* no other attribute is assigned.
updated_asset(row, r) ==
    [row EXCEPT !.position =
        new_position(r.transaction_type, row.position, r.quantity)]

\* What ExternalAPIService.fetch_asset_info can do for a symbol: raise
\* ValueError (None; always for an unknown asset type, lines 33-34) or
\* return the info of a ticker.
fetch_outcomes(asset_symbol, asset_type, infos) ==
    IF asset_type \notin ASSET_TYPES THEN {None}
    ELSE {None} \cup
         {Some(fetch_asset_info(asset_symbol, asset_type, info)) : info \in infos}

\* The exception of the provider call caught and the Asset built from
\* default values.
first_buy_defaults(r, sym, outcome) ==
    IF outcome = None
    THEN Some(new_asset(r, sym,
                        [name |-> sym, last_price |-> 0, sector |-> "Unknown"]))
    ELSE Some(new_asset(r, sym, outcome[1]))

\* Lines 88-97: the exception of the provider call is not caught, so no
\* Asset is built when it raises.
first_buy(r, sym, outcome) ==
    IF outcome = None THEN None ELSE Some(new_asset(r, sym, outcome[1]))

\* The Transaction row with the symbol as the caller typed it.
new_transaction_raw_symbol(r, sym) ==
    [portfolio |-> r.portfolio, asset_symbol |-> r.asset_symbol,
     transaction_type |-> r.transaction_type, quantity |-> r.quantity,
     price |-> r.price, timestamp |-> r.timestamp]

\* Lines 102-109: the Transaction row of an accepted request.
new_transaction(r, sym) ==
    [portfolio |-> r.portfolio, asset_symbol |-> sym,
     transaction_type |-> r.transaction_type, quantity |-> r.quantity,
     price |-> r.price, timestamp |-> r.timestamp]

\* The handler leaves add_transaction with outcome res.
Finish(p, res) ==
    /\ pc' = [pc EXCEPT ![p] = "done"]
    /\ result' = [result EXCEPT ![p] = res]

\* Lines 39-61: conversion, validation and symbol standardization.
validate(p, r) ==
    /\ pc[p] = "idle"
    /\ req' = [req EXCEPT ![p] = r]
    /\ LET check == check_parameters(r, now) IN
         IF check # "ok"
         THEN /\ Finish(p, check)
              /\ UNCHANGED symbol
         ELSE /\ pc' = [pc EXCEPT ![p] = "lookup"]
              /\ symbol' = [symbol EXCEPT
                              ![p] = standardize(r.asset_symbol, r.asset_type)]
              /\ UNCHANGED result
    /\ UNCHANGED <<assets, transactions, now, asset, fetched, asset_info>>
    /\ UNCHANGED refreshVars

\* A call of add_transaction by a caller other than the REST view.
add_transaction(p, r) ==
    /\ validate(p, r)
    /\ UNCHANGED webVars

\* No test for the sale of a symbol that is not held: it is treated as a
\* first buy.
branch_sell_unheld(found, transaction_type, quantity) ==
    IF found # None
    THEN IF transaction_type = "sell"
         THEN IF insufficient(found[1].position, quantity)
              THEN "InsufficientHolding"
              ELSE "save"
         ELSE IF transaction_type = "buy" THEN "save"
         ELSE "InvalidTransactionKind"
    ELSE IF transaction_type \in TRANSACTION_TYPES THEN "create"
         ELSE "InvalidTransactionKind"

\* A buy of a held symbol treated as a first buy.
branch_buy_refetches(found, transaction_type, quantity) ==
    IF transaction_type = "buy" THEN "create"
    ELSE IF found # None
    THEN IF transaction_type = "sell"
         THEN IF insufficient(found[1].position, quantity)
              THEN "InsufficientHolding"
              ELSE "save"
         ELSE "InvalidTransactionKind"
    ELSE IF transaction_type = "sell" THEN "NoSuchHolding"
         ELSE "InvalidTransactionKind"

\* Whatever is not a sell is treated as a buy.
branch_else_buys(found, transaction_type, quantity) ==
    IF found # None
    THEN IF transaction_type = "sell"
         THEN IF insufficient(found[1].position, quantity)
              THEN "InsufficientHolding"
              ELSE "save"
         ELSE "save"
    ELSE IF transaction_type = "sell" THEN "NoSuchHolding"
         ELSE "create"

\* Lines 69-99: the branch taken for the looked-up asset and the kind of
\* transaction: an exception, or the write that follows.  The messages of
\* the code are named after the error taxonomy:
\*   "Insufficient asset quantity for sale"                InsufficientHolding
\*   "Cannot sell an asset that is not in the portfolio"   NoSuchHolding
\*   "Invalid transaction type"                            InvalidTransactionKind
branch(found, transaction_type, quantity) ==
    IF found # None
    THEN IF transaction_type = "sell"
         THEN IF insufficient(found[1].position, quantity)
              THEN "InsufficientHolding"
              ELSE "save"
         ELSE IF transaction_type = "buy" THEN "save"
         ELSE "InvalidTransactionKind"
    ELSE IF transaction_type = "sell" THEN "NoSuchHolding"
         ELSE IF transaction_type = "buy" THEN "create"
         ELSE "InvalidTransactionKind"

\* Lines 64-99 up to the first write: the atomic block is entered, the asset
\* is looked up and the branch is taken.  The provider call of line 88
\* either raises (ValueError, named AssetInfoUnavailable) or returns the
\* info of some ticker in infos.
Lookup(p, infos) ==
    /\ pc[p] = "lookup"
    /\ LET r == req[p]
           found == first(AssetRows(assets, r.portfolio, symbol[p]))
           to == branch(found, r.transaction_type, r.quantity)
       IN
         IF to = "save"
         THEN /\ asset' = [asset EXCEPT ![p] = Some(updated_asset(found[1], r))]
              /\ pc' = [pc EXCEPT ![p] = "save"]
              /\ UNCHANGED <<result, fetched, asset_info>>
         ELSE IF to = "create"
         THEN /\ fetched' = [fetched EXCEPT ![p] = TRUE]
              /\ \E outcome \in fetch_outcomes(symbol[p], r.asset_type, infos) :
                   /\ asset_info' = [asset_info EXCEPT ![p] = outcome]
                   /\ LET built == first_buy(r, symbol[p], outcome) IN
                        IF built = None
                        THEN /\ Finish(p, "AssetInfoUnavailable")
                             /\ UNCHANGED asset
                        ELSE /\ asset' = [asset EXCEPT ![p] = built]
                             /\ pc' = [pc EXCEPT ![p] = "create"]
                             /\ UNCHANGED result
         ELSE /\ Finish(p, to)
              /\ UNCHANGED <<asset, fetched, asset_info>>
    /\ UNCHANGED <<assets, transactions, now, req, symbol>>
    /\ UNCHANGED refreshVars
    /\ UNCHANGED webVars

\* Lines 101-111: Transaction.objects.create(...) and the end of the atomic
\* block, after the Asset write of the handler, which made the table
\* `written`.  A duplicate (portfolio, timestamp) raises an IntegrityError,
\* which leaves the block and rolls it back; otherwise the block commits.
RecordTransaction(p, written) ==
    IF TimestampTaken(transactions, req[p].portfolio, req[p].timestamp)
    THEN /\ Finish(p, "IntegrityError")
         /\ assets' = Rollback(assets, asset[p])
         /\ UNCHANGED transactions
    ELSE /\ Finish(p, "ok")
         /\ assets' = written
         /\ transactions' =
              transactions \cup {new_transaction(req[p], symbol[p])}

\* Lines 75 and 78 to the end: asset.save() writes the whole in-memory row,
\* then the transaction is recorded.
SaveAsset(p) ==
    /\ pc[p] = "save"
    /\ RecordTransaction(p, Commit(assets, asset[p]))
    /\ UNCHANGED <<now, req, symbol, asset, fetched, asset_info>>
    /\ UNCHANGED refreshVars
    /\ UNCHANGED webVars

\* Lines 89-97 to the end: Asset.objects.create(...) is rejected with an
\* IntegrityError when a row of the same (portfolio, symbol) exists;
\* otherwise the transaction is recorded.
CreateAsset(p) ==
    /\ pc[p] = "create"
    /\ IF SymbolTaken(assets, asset[p][1].portfolio, asset[p][1].symbol)
       THEN /\ Finish(p, "IntegrityError")
            /\ assets' = Rollback(assets, None)
            /\ UNCHANGED transactions
       ELSE RecordTransaction(p, Insert(assets, asset[p]))
    /\ UNCHANGED <<now, req, symbol, asset, fetched, asset_info>>
    /\ UNCHANGED refreshVars
    /\ UNCHANGED webVars

\* The caller has consumed the outcome; the handler serves the next call.
Return(p) ==
    /\ pc[p] = "done"
    /\ pc' = [pc EXCEPT ![p] = "idle"]
    /\ req' = [req EXCEPT ![p] = NoRequest]
    /\ symbol' = [symbol EXCEPT ![p] = <<>>]
    /\ asset' = [asset EXCEPT ![p] = None]
    /\ fetched' = [fetched EXCEPT ![p] = FALSE]
    /\ asset_info' = [asset_info EXCEPT ![p] = None]
    /\ result' = [result EXCEPT ![p] = "none"]
    /\ UNCHANGED <<assets, transactions, now>>
    /\ UNCHANGED refreshVars
    /\ UNCHANGED webVars

\* timezone.now() advances, up to the bound of the specification.
Tick(bound) ==
    /\ now < bound
    /\ now' = now + 1
    /\ UNCHANGED <<assets, transactions>>
    /\ UNCHANGED ledgerVars
    /\ UNCHANGED refreshVars
    /\ UNCHANGED webVars


\* -------------------------------------------------------------- valuation
\* Transaction.transaction_value: quantity * price.
transaction_value(t) == t.quantity * t.price

\* sum(transaction.transaction_value for transaction in rows)
RECURSIVE sum_transaction_value(_)
sum_transaction_value(rows) ==
    IF rows = {} THEN 0
    ELSE LET t == CHOOSE x \in rows : TRUE
         IN transaction_value(t) + sum_transaction_value(rows \ {t})

\* self.portfolio.transactions.filter(asset_symbol=self.symbol,
\*                                    transaction_type=kind)
filter_transactions(a, txs, kind) ==
    {t \in txs : /\ t.portfolio = a.portfolio
                 /\ t.asset_symbol = a.symbol
                 /\ t.transaction_type = kind}

\* The net quantity valued at the price of the latest buy.
total_cost_at_latest_price(a, txs) ==
    LET buys == filter_transactions(a, txs, "buy")
        sells == filter_transactions(a, txs, "sell")
    IN  IF buys = {} THEN 0
        ELSE LET latest == CHOOSE t \in buys :
                               \A u \in buys : u.timestamp <= t.timestamp
             IN  (Cardinality(buys) - Cardinality(sells)) * latest.price

\* The cost of the buys alone.
total_cost_buys_only(a, txs) ==
    sum_transaction_value(filter_transactions(a, txs, "buy"))

\* Asset.total_cost: the value of the buys minus the value of the sells.
total_cost(a, txs) ==
    sum_transaction_value(filter_transactions(a, txs, "buy"))
      - sum_transaction_value(filter_transactions(a, txs, "sell"))

\* Decimal division, kept exact as a fraction: the quotient n / d, or the
\* exception that Decimal raises for a zero divisor.
divide(n, d) ==
    IF d = 0 THEN [raised |-> TRUE, num |-> 0, den |-> 1]
    ELSE [raised |-> FALSE, num |-> n, den |-> d]

\* Decimal('0.00')
Zero == [raised |-> FALSE, num |-> 0, den |-> 1]

\* The division without the test of the position.
average_cost_unguarded(a, txs) == divide(total_cost(a, txs), a.position)

\* Asset.average_cost: total_cost / position if position > 0, else 0.
average_cost(a, txs) ==
    IF a.position > 0 THEN divide(total_cost(a, txs), a.position) ELSE Zero

\* An unknown price counted as a price of one.
market_value_null_as_unit(a) ==
    IF a.last_price # None THEN a.position * a.last_price[1] ELSE a.position

\* Asset.market_value: position * last_price, or 0 if the price is unknown.
market_value(a) ==
    IF a.last_price # None THEN a.position * a.last_price[1] ELSE 0

\* Asset.profit_loss: market_value - total_cost.
profit_loss(a, txs) == market_value(a) - total_cost(a, txs)

\* portfolio.assets.all()
assets_all(pf, db) == {a \in db : a.portfolio = pf}

\* sum(asset.market_value for asset in rows)
RECURSIVE sum_market_value(_)
sum_market_value(rows) ==
    IF rows = {} THEN 0
    ELSE LET a == CHOOSE x \in rows : TRUE
         IN market_value(a) + sum_market_value(rows \ {a})

\* sum(asset.total_cost for asset in rows)
RECURSIVE sum_total_cost(_, _)
sum_total_cost(rows, txs) ==
    IF rows = {} THEN 0
    ELSE LET a == CHOOSE x \in rows : TRUE
         IN total_cost(a, txs) + sum_total_cost(rows \ {a}, txs)

\* The market value of the assets of every portfolio.
assets_value_all_portfolios(pf, db) == sum_market_value(db)

\* Portfolio.assets_value
assets_value(pf, db) == sum_market_value(assets_all(pf, db))

\* Portfolio.assets_cost
assets_cost(pf, db, txs) == sum_total_cost(assets_all(pf, db), txs)

\* ------------------------------------------------------------- asset API
\* AssetViewSet.perform_create: serializer.save(portfolio=portfolio) stores
\* the posted Asset in the portfolio of the user; last_price may be null.
\* The insert of a symbol the portfolio already has is rejected by the
\* uniqueness constraint.
AssetViewSet_perform_create(row) ==
    /\ assets' = IF SymbolTaken(assets, row.portfolio, row.symbol)
                 THEN Rollback(assets, Some(row))
                 ELSE Insert(assets, Some(row))
    /\ UNCHANGED <<transactions, now>>
    /\ UNCHANGED ledgerVars
    /\ UNCHANGED refreshVars
    /\ UNCHANGED webVars



\* ------------------------------------------------------------- accounts
\* Portfolio.objects.filter(user=u)
PortfolioRows(db, u) == {pf \in db : pf.user = u}

\* The OneToOneField makes user unique in the Portfolio table.
UserTaken(db, u) == PortfolioRows(db, u) # {}

\* The row an INSERT into the Portfolio table stores for user u.
new_portfolio(u) == [id |-> PortfolioIds[last_id + 1], user |-> u]

\* on_delete=CASCADE: the rows of a table that belong to none of `gone`.
cascade(db, gone) == {row \in db : \A pf \in gone : row.portfolio # pf.id}

\* User.objects.create_user(...): the User row is inserted and the post_save
\* signal is sent with created=True before create_user returns.
User_save(u) ==
    /\ u \notin users
    /\ users' = users \cup {u}
    /\ post_save' = post_save \cup {u}
    /\ UNCHANGED <<portfolio_objects, last_id>>
    /\ UNCHANGED <<assets, transactions, now>>
    /\ UNCHANGED ledgerVars
    /\ UNCHANGED refreshVars
    /\ UNCHANGED viewVars

\* The receiver of post_save: Portfolio.objects.get_or_create(user=instance).
create_user_portfolio(u) ==
    /\ u \in post_save
    /\ post_save' = post_save \ {u}
    /\ IF UserTaken(portfolio_objects, u)
       THEN UNCHANGED <<portfolio_objects, last_id>>
       ELSE /\ last_id < MaxPortfolioId
            /\ portfolio_objects' = portfolio_objects \cup {new_portfolio(u)}
            /\ last_id' = last_id + 1
    /\ UNCHANGED users
    /\ UNCHANGED <<assets, transactions, now>>
    /\ UNCHANGED ledgerVars
    /\ UNCHANGED refreshVars
    /\ UNCHANGED viewVars

\* POST /api/portfolios/ by user u, served by handler p: 400 when the user
\* has a portfolio, else the portfolio is saved with user=request.user.
PortfolioViewSet_create(p, u) ==
    /\ u \in users
    /\ IF UserTaken(portfolio_objects, u)
       THEN /\ response' = [response EXCEPT ![p] = 400]
            /\ UNCHANGED <<portfolio_objects, last_id>>
       ELSE /\ last_id < MaxPortfolioId
            /\ portfolio_objects' = portfolio_objects \cup {new_portfolio(u)}
            /\ last_id' = last_id + 1
            /\ response' = [response EXCEPT ![p] = 201]
    /\ UNCHANGED <<users, post_save, posted, invoked>>
    /\ UNCHANGED <<assets, transactions, now>>
    /\ UNCHANGED ledgerVars
    /\ UNCHANGED refreshVars

\* DELETE /api/portfolios/<pk>/ by user u, served by handler p: the
\* ModelViewSet's destroy deletes the object get_queryset() yields for the
\* user, and the deletion cascades to its assets and transactions.
PortfolioViewSet_destroy(p, u) ==
    /\ u \in users
    /\ LET own == PortfolioRows(portfolio_objects, u) IN
         IF own = {}
         THEN /\ response' = [response EXCEPT ![p] = 404]
              /\ UNCHANGED <<portfolio_objects, assets, transactions>>
         ELSE /\ portfolio_objects' = portfolio_objects \ own
              /\ assets' = cascade(assets, own)
              /\ transactions' = cascade(transactions, own)
              /\ response' = [response EXCEPT ![p] = 204]
    /\ UNCHANGED <<users, last_id, post_save, posted, invoked>>
    /\ UNCHANGED now
    /\ UNCHANGED ledgerVars
    /\ UNCHANGED refreshVars

\* ------------------------------------------------------ transaction API
\* TransactionSerializer(data=request.data).is_valid(): asset_symbol is a
\* required, non-blank CharField and transaction_type a ChoiceField; quantity
\* and price are DecimalFields without a minimum.
is_valid(data) ==
    /\ data.asset_symbol # <<>>
    /\ data.transaction_type \in TRANSACTION_TYPES

\* serializer.validated_data: the writable fields of the serializer.
\* timestamp is read-only and asset_type is no field of it.
validated_data(data) ==
    [asset_symbol |-> data.asset_symbol,
     transaction_type |-> data.transaction_type,
     quantity |-> data.quantity,
     price |-> data.price]

\* dict.get(key): the value of the key, `absent` standing for None.
dict_get(d, key, absent) == IF key \in DOMAIN d THEN d[key] ELSE absent

\* The arguments perform_create passes to add_transaction.
perform_create_call(pf, d) ==
    Request(pf, d.asset_symbol, dict_get(d, "asset_type", NoAssetType),
            d.transaction_type, d.quantity, d.price,
            dict_get(d, "timestamp", NoTimestamp))

\* The response to an exception or to the plain return of perform_create.
status_of(res) == IF res = "ok" THEN 201 ELSE 400

\* POST /api/transactions/ by user u with body data, served by handler p,
\* up to the validation inside add_transaction: an invalid body is answered
\* 400; otherwise perform_create gets the user's portfolio and calls
\* add_transaction.
TransactionViewSet_create(p, u, data) ==
    /\ pc[p] = "idle"
    /\ posted[p] = None
    /\ u \in users
    /\ IF ~is_valid(data) \/ PortfolioRows(portfolio_objects, u) = {}
       THEN /\ response' = [response EXCEPT ![p] = 400]
            /\ invoked' = [invoked EXCEPT ![p] = <<>>]
            /\ UNCHANGED posted
            /\ UNCHANGED <<assets, transactions, now>>
            /\ UNCHANGED ledgerVars
            /\ UNCHANGED refreshVars
       ELSE \E pf \in PortfolioRows(portfolio_objects, u) :
              LET r == perform_create_call(pf.id, validated_data(data)) IN
                /\ posted' = [posted EXCEPT ![p] = Some(data)]
                /\ invoked' = [invoked EXCEPT ![p] = <<r>>]
                /\ response' = [response EXCEPT ![p] = 0]
                /\ validate(p, r)
    /\ UNCHANGED accountVars

\* The rest of create, once add_transaction has returned or raised: 201
\* after a return, 400 after a ValidationError or any other exception.
TransactionViewSet_respond(p) ==
    /\ pc[p] = "done"
    /\ posted[p] # None
    /\ response' = [response EXCEPT ![p] = status_of(result[p])]
    /\ posted' = [posted EXCEPT ![p] = None]
    /\ pc' = [pc EXCEPT ![p] = "idle"]
    /\ req' = [req EXCEPT ![p] = NoRequest]
    /\ symbol' = [symbol EXCEPT ![p] = <<>>]
    /\ asset' = [asset EXCEPT ![p] = None]
    /\ fetched' = [fetched EXCEPT ![p] = FALSE]
    /\ asset_info' = [asset_info EXCEPT ![p] = None]
    /\ result' = [result EXCEPT ![p] = "none"]
    /\ UNCHANGED invoked
    /\ UNCHANGED <<assets, transactions, now>>
    /\ UNCHANGED refreshVars
    /\ UNCHANGED accountVars

\* ------------------------------------------------ update_portfolio_prices
\* ExternalAPIService.fetch_latest_price: the price of the ticker info.
fetch_latest_price(asset_type, info) ==
    IF asset_type = "crypto" THEN get(info.open, 0) ELSE get(info.bid, 0)

\* Lines 159-166: a cached refresh returns at once; otherwise the assets of
\* the portfolio are loaded for the loop.
update_portfolio_prices(pf) ==
    /\ rpc = "idle"
    /\ IF cache[pf]
       THEN UNCHANGED <<rpc, rportfolio, rassets>>
       ELSE /\ rpc' = "loop"
            /\ rportfolio' = pf
            /\ rassets' = {a \in assets : a.portfolio = pf}
    /\ UNCHANGED <<assets, transactions, now, cache>>
    /\ UNCHANGED ledgerVars
    /\ UNCHANGED webVars

\* Lines 168-184: one iteration of the loop.  The price lookup returns None
\* on failure; otherwise the loaded Asset object gets the new price and
\* asset.save() writes all of its columns.
RefreshAsset ==
    /\ rpc = "loop"
    /\ \E a \in rassets :
         /\ rassets' = rassets \ {a}
         /\ \/ UNCHANGED assets
            \/ \E info \in TickerInfos :
                 assets' = Commit(assets,
                      Some([a EXCEPT !.last_price =
                              Some(fetch_latest_price(a.asset_type, info))]))
    /\ UNCHANGED <<transactions, now, cache, rpc, rportfolio>>
    /\ UNCHANGED ledgerVars
    /\ UNCHANGED webVars

\* Lines 186-193: the refresh is remembered in the cache.
RefreshDone ==
    /\ rpc = "loop"
    /\ rassets = {}
    /\ cache' = [cache EXCEPT ![rportfolio] = TRUE]
    /\ rpc' = "idle"
    /\ UNCHANGED <<assets, transactions, now, rportfolio, rassets>>
    /\ UNCHANGED ledgerVars
    /\ UNCHANGED webVars

\* The cache entry times out (60 * 15 seconds).
CacheExpire(pf) ==
    /\ cache[pf]
    /\ cache' = [cache EXCEPT ![pf] = FALSE]
    /\ UNCHANGED <<assets, transactions, now, rpc, rportfolio, rassets>>
    /\ UNCHANGED ledgerVars
    /\ UNCHANGED webVars

\* ------------------------------------------------------- specifications
Init ==
    /\ assets = {}
    /\ transactions = {}
    /\ now = 0
    /\ pc = [p \in Procs |-> "idle"]
    /\ req = [p \in Procs |-> NoRequest]
    /\ symbol = [p \in Procs |-> <<>>]
    /\ asset = [p \in Procs |-> None]
    /\ fetched = [p \in Procs |-> FALSE]
    /\ asset_info = [p \in Procs |-> None]
    /\ result = [p \in Procs |-> "none"]
    /\ cache = [pf \in Portfolios |-> FALSE]
    /\ rpc = "idle"
    /\ rportfolio = "p1"
    /\ rassets = {}
    /\ users = {"u1", "u2"}
    /\ portfolio_objects = {[id |-> "p1", user |-> "u1"],
                            [id |-> "p2", user |-> "u2"]}
    /\ last_id = 2
    /\ post_save = {}
    /\ posted = [p \in Procs |-> None]
    /\ invoked = [p \in Procs |-> <<>>]
    /\ response = [p \in Procs |-> 0]

Timestamps == 0..MaxTime

\* Requests of the concurrent specification: two handlers interleave on one
\* portfolio, each request stamped with the time of its call.
ConcRequests(t) ==
    { Request("p1", <<"B">>, "stock_us", kind, q, 1, t) :
        kind \in TRANSACTION_TYPES, q \in {1, 2} }

Next ==
    \/ \E p \in Procs, r \in ConcRequests(now) : add_transaction(p, r)
    \/ \E p \in Procs : Lookup(p, FullInfos)
    \/ \E p \in Procs : SaveAsset(p)
    \/ \E p \in Procs : CreateAsset(p)
    \/ \E p \in Procs : Return(p)
    \/ Tick(MaxRaceTime)

Spec == Init /\ [][Next]_vars

\* Requests of the refresh specification: two handlers and the price refresh
\* interleave on one portfolio; buys of one unit, sells of one or two.
RefreshRequests(t) ==
    {Request("p1", <<"B">>, "stock_us", "buy", 1, 1, t)} \cup
    { Request("p1", <<"B">>, "stock_us", "sell", q, 1, t) : q \in {1, 2} }

RefreshNext ==
    \/ \E p \in Procs, r \in RefreshRequests(now) : add_transaction(p, r)
    \/ \E p \in Procs : Lookup(p, FullInfos)
    \/ \E p \in Procs : SaveAsset(p)
    \/ \E p \in Procs : CreateAsset(p)
    \/ \E p \in Procs : Return(p)
    \/ update_portfolio_prices("p1")
    \/ RefreshAsset
    \/ RefreshDone
    \/ CacheExpire("p1")
    \/ Tick(MaxTime)

RefreshSpec == Init /\ [][RefreshNext]_vars

\* Requests of the sequential specification: arguments that pass validation
\* unless their timestamp is in the future, on two symbols, with any kind.
SeqRequests ==
    { Request("p1", <<"B">>, ty, kind, q, 1, ts) :
        ty \in {"stock_us", "stock_au"},
        kind \in TRANSACTION_TYPES \cup {"swap"},
        q \in 1..MaxQty, ts \in Timestamps }

NoCallRuns == \A q \in Procs : pc[q] = "idle"

\* One call at a time: a call starts when no other call runs.
SeqNext ==
    \/ \E r \in SeqRequests : NoCallRuns /\ add_transaction("w1", r)
    \/ \E p \in Procs : Lookup(p, TickerInfos)
    \/ \E p \in Procs : SaveAsset(p)
    \/ \E p \in Procs : CreateAsset(p)
    \/ \E p \in Procs : Return(p)
    \/ Tick(MaxTime)

SeqSpec == Init /\ [][SeqNext]_vars

\* Requests of the validation specification: every combination of a
\* negative, zero or positive quantity and price, a past, present or future
\* timestamp, a known or unknown asset type and any kind.
CheckRequests ==
    { Request("p1", <<"B">>, ty, kind, q, pr, ts) :
        ty \in {"stock_us", "bond"},
        kind \in TRANSACTION_TYPES \cup {"swap"},
        q \in (-1)..1, pr \in (-1)..1, ts \in Timestamps }

CheckNext ==
    \/ \E r \in CheckRequests : NoCallRuns /\ add_transaction("w1", r)
    \/ \E p \in Procs : Lookup(p, FullInfos)
    \/ \E p \in Procs : SaveAsset(p)
    \/ \E p \in Procs : CreateAsset(p)
    \/ \E p \in Procs : Return(p)
    \/ Tick(MaxTime)

CheckSpec == Init /\ [][CheckNext]_vars

\* Symbols as a caller may type them: bare, already carrying the suffix of
\* one class, or ending with the letters of a suffix without its separator.
RawSymbols ==
    { <<"B">>, <<"B">> \o AX, <<"B">> \o USD, <<"A", "X">>, <<"U", "S", "D">> }

\* Requests of the symbol specification: every raw symbol under every asset
\* type, one call at a time.
SymbolRequests ==
    { Request("p1", sym, ty, kind, 1, 1, ts) :
        sym \in RawSymbols, ty \in ASSET_TYPES,
        kind \in TRANSACTION_TYPES, ts \in Timestamps }

SymbolNext ==
    \/ \E r \in SymbolRequests : NoCallRuns /\ add_transaction("w1", r)
    \/ \E p \in Procs : Lookup(p, FullInfos)
    \/ \E p \in Procs : SaveAsset(p)
    \/ \E p \in Procs : CreateAsset(p)
    \/ \E p \in Procs : Return(p)
    \/ Tick(MaxTime)

SymbolSpec == Init /\ [][SymbolNext]_vars

\* Execution prices of the valuation specification; the provider quotes 1
\* for a stock and 2 for a cryptocurrency.
Prices == {1, 2}

\* Requests of the valuation specification: a stock and a cryptocurrency
\* traded at either price, one call at a time.
ValueRequests ==
    { Request("p1", <<"B">>, ty, kind, q, pr, ts) :
        ty \in {"stock_us", "crypto"}, kind \in TRANSACTION_TYPES,
        q \in 1..MaxQty, pr \in Prices, ts \in Timestamps }

ValueNext ==
    \/ \E r \in ValueRequests : NoCallRuns /\ add_transaction("w1", r)
    \/ \E p \in Procs : Lookup(p, FullInfos)
    \/ \E p \in Procs : SaveAsset(p)
    \/ \E p \in Procs : CreateAsset(p)
    \/ \E p \in Procs : Return(p)
    \/ Tick(MaxTime)

ValueSpec == Init /\ [][ValueNext]_vars

\* Requests of the two-portfolio specification: two handlers interleave on
\* two portfolios, each request stamped with the time of its call and naming
\* an Australian stock without its suffix.
PortfolioRequests(t) ==
    { Request(pf, <<"B">>, "stock_au", kind, 1, 1, t) :
        pf \in Portfolios, kind \in TRANSACTION_TYPES }

PortfolioNext ==
    \/ \E p \in Procs, r \in PortfolioRequests(now) : add_transaction(p, r)
    \/ \E p \in Procs : Lookup(p, FullInfos)
    \/ \E p \in Procs : SaveAsset(p)
    \/ \E p \in Procs : CreateAsset(p)
    \/ \E p \in Procs : Return(p)
    \/ Tick(MaxTime)

PortfolioSpec == Init /\ [][PortfolioNext]_vars

\* Requests of the history specification: unit trades of one symbol at
\* either price in two portfolios, one call at a time, so that the two
\* portfolios can record the same trades in different orders.
HistoryRequests ==
    { Request(pf, <<"B">>, "stock_us", kind, 1, pr, ts) :
        pf \in Portfolios, kind \in TRANSACTION_TYPES,
        pr \in Prices, ts \in Timestamps }

HistoryNext ==
    \/ \E r \in HistoryRequests : NoCallRuns /\ add_transaction("w1", r)
    \/ \E p \in Procs : Lookup(p, FullInfos)
    \/ \E p \in Procs : SaveAsset(p)
    \/ \E p \in Procs : CreateAsset(p)
    \/ \E p \in Procs : Return(p)
    \/ Tick(MaxTime)

HistorySpec == Init /\ [][HistoryNext]_vars

\* Assets posted to the asset API in the holdings specification: a second
\* symbol with any position up to MaxQty and an unknown or a known price.
PostedAssets ==
    { [portfolio |-> pf, symbol |-> <<"C">>, name |-> <<"C">>,
       asset_type |-> "stock_us", position |-> q, last_price |-> lp,
       sector |-> "Technology"] :
        pf \in Portfolios, q \in 0..MaxQty, lp \in {None, Some(2)} }

\* Requests of the holdings specification: unit trades of one symbol at
\* either price in the first portfolio, one call at a time.
HoldingRequests ==
    { Request("p1", <<"B">>, "stock_us", kind, 1, pr, ts) :
        kind \in TRANSACTION_TYPES, pr \in Prices, ts \in Timestamps }

HoldingNext ==
    \/ \E r \in HoldingRequests : NoCallRuns /\ add_transaction("w1", r)
    \/ \E p \in Procs : Lookup(p, FullInfos)
    \/ \E p \in Procs : SaveAsset(p)
    \/ \E p \in Procs : CreateAsset(p)
    \/ \E p \in Procs : Return(p)
    \/ \E row \in PostedAssets : AssetViewSet_perform_create(row)
    \/ Tick(MaxTime)

HoldingSpec == Init /\ [][HoldingNext]_vars

\* Requests of the two-symbol specification: two handlers interleave on one
\* portfolio, the first trading B with even timestamps and the second C with
\* odd ones, none in the future.
SymbolOf(p) == IF p = "w1" THEN <<"B">> ELSE <<"C">>
StampsOf(p, t) == {ts \in 0..t : ts % 2 = (IF p = "w1" THEN 0 ELSE 1)}

IndependentRequests(p, t) ==
    { Request("p1", SymbolOf(p), "stock_us", kind, q, 1, ts) :
        kind \in TRANSACTION_TYPES, q \in {1, 2}, ts \in StampsOf(p, t) }

IndependentNext ==
    \/ \E p \in Procs :
          \E r \in IndependentRequests(p, now) : add_transaction(p, r)
    \/ \E p \in Procs : Lookup(p, FullInfos)
    \/ \E p \in Procs : SaveAsset(p)
    \/ \E p \in Procs : CreateAsset(p)
    \/ \E p \in Procs : Return(p)
    \/ Tick(MaxRaceTime)

IndependentSpec == Init /\ [][IndependentNext]_vars

\* Requests of the quote specification: trades of one symbol, one call at a
\* time, interleaved with the price refresh of the portfolio.
QuoteRequests(t) ==
    { Request("p1", <<"B">>, "stock_us", kind, q, 1, t) :
        kind \in TRANSACTION_TYPES, q \in 1..MaxQty }

QuoteNext ==
    \/ \E r \in QuoteRequests(now) : NoCallRuns /\ add_transaction("w1", r)
    \/ \E p \in Procs : Lookup(p, FullInfos)
    \/ \E p \in Procs : SaveAsset(p)
    \/ \E p \in Procs : CreateAsset(p)
    \/ \E p \in Procs : Return(p)
    \/ update_portfolio_prices("p1")
    \/ RefreshAsset
    \/ RefreshDone
    \/ CacheExpire("p1")
    \/ Tick(MaxTime)

QuoteSpec == Init /\ [][QuoteNext]_vars

\* Requests of the API specification: the first handler serves the POSTs of
\* user u1 to the transaction API while the second serves calls of other
\* callers on the same portfolio, stamped with the time of the call.
Bodies ==
    { [asset_symbol |-> sym, asset_type |-> "stock_us",
       transaction_type |-> kind, quantity |-> q, price |-> 1] :
        sym \in {<<>>, <<"B">>},
        kind \in TRANSACTION_TYPES \cup {"swap"}, q \in 0..1 }

ApiRequests(t) ==
    { Request("p1", <<"B">>, "stock_us", kind, 1, 1, t) :
        kind \in TRANSACTION_TYPES }

ApiNext ==
    \/ \E data \in Bodies : TransactionViewSet_create("w1", "u1", data)
    \/ TransactionViewSet_respond("w1")
    \/ \E r \in ApiRequests(now) : add_transaction("w2", r)
    \/ \E p \in Procs : Lookup(p, FullInfos)
    \/ \E p \in Procs : SaveAsset(p)
    \/ \E p \in Procs : CreateAsset(p)
    \/ Return("w2")
    \/ Tick(MaxTime)

ApiSpec == Init /\ [][ApiNext]_vars

\* Accounts: users register and call the portfolio API; the owners of
\* existing portfolios post assets to them.
AccountNext ==
    \/ \E u \in Users : User_save(u)
    \/ \E u \in Users : create_user_portfolio(u)
    \/ \E u \in Users : PortfolioViewSet_create("w1", u)
    \/ \E u \in Users : PortfolioViewSet_destroy("w1", u)
    \/ \E row \in PostedAssets :
          /\ \E pf \in portfolio_objects : pf.id = row.portfolio
          /\ AssetViewSet_perform_create(row)

AccountSpec == Init /\ [][AccountNext]_vars

TypeOK ==
    /\ now \in 0..(MaxTime + MaxRaceTime)
    /\ \A p \in Procs :
         pc[p] \in {"idle", "lookup", "save", "create", "done"}
    /\ rpc \in {"idle", "loop"}

\* ================================================================ claims
RECURSIVE SumQuantity(_)
SumQuantity(txs) ==
    IF txs = {} THEN 0
    ELSE LET t == CHOOSE x \in txs : TRUE
         IN t.quantity + SumQuantity(txs \ {t})

\* The recorded transactions of one kind for a symbol of a portfolio.
Recorded(pf, sym, kind) ==
    {t \in transactions : /\ t.portfolio = pf
                          /\ t.asset_symbol = sym
                          /\ t.transaction_type = kind}

Bought(pf, sym) == SumQuantity(Recorded(pf, sym, "buy"))
Sold(pf, sym) == SumQuantity(Recorded(pf, sym, "sell"))

\* The step in which handler p is called, and the one in which its call ends.
Called(p) == pc[p] = "idle" /\ pc'[p] # "idle"
Completes(p) == pc[p] # "done" /\ pc'[p] = "done"

\* The step in which handler p leaves the lookup of a sell.
SellLookedUp(p) ==
    /\ pc[p] = "lookup"
    /\ pc'[p] # "lookup"
    /\ req[p].transaction_type = "sell"

Unchanged == assets' = assets /\ transactions' = transactions

\* The request passes the four parameter checks at time t.
Passes(r, t) ==
    /\ r.quantity > 0
    /\ r.price > 0
    /\ r.timestamp <= t
    /\ r.asset_type \in ASSET_TYPES

\* C1: in a sequential execution that starts without assets, every asset's
\* position is the sum of the quantities of the recorded buys minus the sum
\* of the quantities of the recorded sells of its symbol in its portfolio.
C1_PositionIsNetQuantity ==
    \A a \in assets :
        a.position = Bought(a.portfolio, a.symbol) - Sold(a.portfolio, a.symbol)

\* An asset that was bought and partly sold.
C1_Witness ==
    \E a \in assets :
        /\ Sold(a.portfolio, a.symbol) > 0
        /\ a.position > 0
        /\ a.position = Bought(a.portfolio, a.symbol) - Sold(a.portfolio, a.symbol)

\* C2: of concurrent sells of one symbol that together exceed the held
\* position only one succeeds; two never both succeed, so the sells recorded
\* for a symbol never exceed the buys recorded for it.
C2_OneSellWins ==
    \A pf \in Portfolios :
        \A sym \in {t.asset_symbol : t \in transactions} :
            Sold(pf, sym) <= Bought(pf, sym)

\* C3: no update is lost: a call that commits leaves the position that
\* results from applying its transaction to the position stored at that
\* moment, whatever other calls committed since it read the asset.
C3_NoLostUpdate ==
    [][\A p \in Procs :
          (pc[p] = "save" /\ Completes(p) /\ result'[p] = "ok")
          => \A a \in AssetRows(assets, req[p].portfolio, symbol[p]) :
                \A b \in AssetRows(assets', req[p].portfolio, symbol[p]) :
                    b.position =
                        IF req[p].transaction_type = "sell"
                        THEN a.position - req[p].quantity
                        ELSE a.position + req[p].quantity]_vars

\* C4: a sequential call is all or nothing.  An accepted call adds its
\* Transaction row and creates or changes the Asset row of its symbol, and
\* nothing else; a call that fails, also on the insertion of a Transaction
\* with a timestamp already used, leaves both tables as they were.
C4_AllOrNothing ==
    [][\A p \in Procs :
          Completes(p) =>
            LET r == req'[p]
                tx == new_transaction(r, symbol'[p])
                before == AssetRows(assets, r.portfolio, symbol'[p])
                after == AssetRows(assets', r.portfolio, symbol'[p])
            IN  IF result'[p] = "ok"
                THEN /\ tx \notin transactions
                     /\ transactions' = transactions \cup {tx}
                     /\ Cardinality(after) = 1
                     /\ after # before
                     /\ assets' \ after = assets \ before
                ELSE Unchanged]_vars

\* A first buy was rejected on its timestamp and its asset does not exist.
C4_Witness ==
    \E p \in Procs :
        /\ pc[p] = "done"
        /\ result[p] = "IntegrityError"
        /\ asset[p] # None
        /\ TimestampTaken(transactions, req[p].portfolio, req[p].timestamp)
        /\ ~SymbolTaken(assets, req[p].portfolio, symbol[p])

\* C5: the position of every asset is at least zero in every state reached
\* by interleaved calls and price refreshes.
C5_PositionNonNegative == \A a \in assets : a.position >= 0

\* A whole position was sold and a price refresh has run.
C5_Witness ==
    /\ cache["p1"]
    /\ \E a \in assets : a.position = 0 /\ Sold(a.portfolio, a.symbol) > 0

\* C6: a sell that passes validation for a symbol without Asset row in the
\* portfolio fails with NoSuchHolding and leaves both tables as they were.
C6_SellUnheld ==
    [][\A p \in Procs :
          (SellLookedUp(p)
             /\ ~SymbolTaken(assets, req[p].portfolio, symbol[p]))
          => /\ pc'[p] = "done"
             /\ result'[p] = "NoSuchHolding"
             /\ Unchanged]_vars

\* A sell of an unheld symbol failed in a portfolio that holds another one.
C6_Witness ==
    \E p \in Procs :
        /\ pc[p] = "done"
        /\ result[p] = "NoSuchHolding"
        /\ req[p].transaction_type = "sell"
        /\ assets # {}
        /\ ~SymbolTaken(assets, req[p].portfolio, symbol[p])

\* C7: a sell that passes validation for more than the position fails with
\* InsufficientHolding and leaves both tables as they were, also when the
\* position is zero; a sell of exactly the position with an unused timestamp
\* succeeds and leaves the Asset row with position zero.
C7_SellBounds ==
    [][\A p \in Procs :
          /\ SellLookedUp(p)
             => \A a \in AssetRows(assets, req[p].portfolio, symbol[p]) :
                   a.position < req[p].quantity
                   => /\ pc'[p] = "done"
                      /\ result'[p] = "InsufficientHolding"
                      /\ Unchanged
          /\ (/\ Completes(p)
              /\ pc[p] # "idle"
              /\ req[p].transaction_type = "sell"
              /\ ~TimestampTaken(transactions, req[p].portfolio,
                                 req[p].timestamp))
             => \A a \in AssetRows(assets, req[p].portfolio, symbol[p]) :
                   a.position = req[p].quantity
                   => /\ result'[p] = "ok"
                      /\ AssetRows(assets', req[p].portfolio, symbol[p])
                           = {[a EXCEPT !.position = 0]}]_vars

\* After the sale of a whole position a further sell failed with
\* InsufficientHolding.
C7_Witness ==
    \E p \in Procs :
        /\ pc[p] = "done"
        /\ result[p] = "InsufficientHolding"
        /\ Sold(req[p].portfolio, symbol[p]) > 0
        /\ \E a \in AssetRows(assets, req[p].portfolio, symbol[p]) :
              a.position = 0

\* C8: the checks run in the order quantity, price, timestamp, asset type,
\* the first failing one decides the error and ends the call before the
\* asset lookup: a handler that reached the lookup, consulted the provider
\* or reports a holding, kind or provider error serves a request that
\* passes all four.
C8_CheckOrder ==
    /\ [][\A p \in Procs :
            Called(p) =>
              LET r == req'[p] IN
                /\ r.quantity <= 0 => result'[p] = "InvalidQuantity"
                /\ (r.quantity > 0 /\ r.price <= 0)
                   => result'[p] = "InvalidPrice"
                /\ (r.quantity > 0 /\ r.price > 0 /\ r.timestamp > now)
                   => result'[p] = "FutureTimestamp"
                /\ (/\ r.quantity > 0
                    /\ r.price > 0
                    /\ r.timestamp <= now
                    /\ r.asset_type \notin ASSET_TYPES)
                   => result'[p] = "InvalidAssetClass"
                /\ ~Passes(r, now) => pc'[p] = "done"]_vars
    /\ [](\A p \in Procs :
            (\/ pc[p] \in {"lookup", "save", "create"}
             \/ fetched[p]
             \/ result[p] \in {"NoSuchHolding", "InsufficientHolding",
                               "InvalidTransactionKind",
                               "AssetInfoUnavailable"})
            => Passes(req[p], now))

\* A request that fails all four checks and has an unknown kind was answered
\* with InvalidQuantity.
C8_Witness ==
    \E p \in Procs :
        /\ pc[p] = "done"
        /\ result[p] = "InvalidQuantity"
        /\ req[p].price <= 0
        /\ req[p].timestamp > now
        /\ req[p].asset_type \notin ASSET_TYPES
        /\ req[p].transaction_type \notin TRANSACTION_TYPES

\* C9: a call with a timestamp later than the current time fails, with
\* FutureTimestamp when its quantity and price are positive, and leaves both
\* tables as they were; a timestamp equal to or earlier than the current
\* time never fails with FutureTimestamp; no recorded transaction has a
\* timestamp later than the current time.
C9_FutureTimestamp ==
    /\ [][\A p \in Procs :
            Called(p) =>
              LET r == req'[p] IN
                /\ r.timestamp > now
                   => /\ pc'[p] = "done"
                      /\ result'[p] \in {"InvalidQuantity", "InvalidPrice",
                                         "FutureTimestamp"}
                      /\ (r.quantity > 0 /\ r.price > 0)
                         => result'[p] = "FutureTimestamp"
                      /\ Unchanged
                /\ r.timestamp <= now
                   => result'[p] # "FutureTimestamp"]_vars
    /\ [](\A t \in transactions : t.timestamp <= now)

\* A request stamped one tick ahead of the clock failed with FutureTimestamp
\* in a portfolio that has transactions.
C9_Witness ==
    \E p \in Procs :
        /\ pc[p] = "done"
        /\ result[p] = "FutureTimestamp"
        /\ req[p].timestamp = now + 1
        /\ transactions # {}

\* C10: a call with a quantity of zero or less fails with InvalidQuantity,
\* one with a positive quantity and a price of zero or less fails with
\* InvalidPrice, both leave the tables as they were, and every recorded
\* transaction has a positive quantity and a positive price.
C10_PositiveQuantityAndPrice ==
    /\ [][\A p \in Procs :
            Called(p) =>
              LET r == req'[p] IN
                /\ r.quantity <= 0
                   => /\ pc'[p] = "done"
                      /\ result'[p] = "InvalidQuantity"
                      /\ Unchanged
                /\ (r.quantity > 0 /\ r.price <= 0)
                   => /\ pc'[p] = "done"
                      /\ result'[p] = "InvalidPrice"
                      /\ Unchanged]_vars
    /\ [](\A t \in transactions : t.quantity > 0 /\ t.price > 0)

\* A request with a positive quantity and a price of exactly zero failed
\* with InvalidPrice in a portfolio that has transactions.
C10_Witness ==
    \E p \in Procs :
        /\ pc[p] = "done"
        /\ result[p] = "InvalidPrice"
        /\ req[p].quantity > 0
        /\ req[p].price = 0
        /\ transactions # {}

\* The handler has standardized the symbol of its request.
Standardized(p) ==
    \/ pc[p] \in {"lookup", "save", "create"}
    \/ /\ pc[p] = "done"
       /\ result[p] \notin {"InvalidQuantity", "InvalidPrice",
                             "FutureTimestamp", "InvalidAssetClass"}

\* The suffix of an asset type, empty for US stocks.
Suffix(asset_type) ==
    IF asset_type = "stock_au" THEN AX
    ELSE IF asset_type = "crypto" THEN USD
    ELSE <<>>

\* C11: the standardized symbol of a request is the raw symbol when that
\* already ends with the suffix of the asset type (always, for US stocks) and
\* the raw symbol followed by the suffix once otherwise; it ends with the
\* suffix; standardizing it again changes nothing; and the Asset row and the
\* Transaction row written by an accepted call both carry it.
C11_Standardization ==
    /\ [](\A p \in Procs :
            Standardized(p) =>
              LET s == req[p].asset_symbol
                  c == req[p].asset_type
              IN  /\ c = "stock_us" => symbol[p] = s
                  /\ endswith(symbol[p], Suffix(c))
                  /\ symbol[p] = IF endswith(s, Suffix(c)) THEN s
                                 ELSE s \o Suffix(c)
                  /\ standardize(symbol[p], c) = symbol[p]
                  /\ standardize(standardize(s, c), c) = standardize(s, c))
    /\ [][\A p \in Procs :
            (Completes(p) /\ result'[p] = "ok")
            => /\ transactions' # transactions
               /\ assets' # assets
               /\ \A t \in transactions' \ transactions :
                     t.asset_symbol = symbol[p]
               /\ \A a \in assets' \ assets : a.symbol = symbol[p]]_vars

\* A call that names an Australian stock with its suffix was accepted
\* against the asset that a call naming it without the suffix had created.
C11_Witness ==
    \E p \in Procs :
        /\ pc[p] = "done"
        /\ result[p] = "ok"
        /\ req[p].asset_type = "stock_au"
        /\ req[p].asset_symbol = <<"B">> \o AX
        /\ \E t \in transactions :
              t.asset_symbol = symbol[p] /\ t.timestamp # req[p].timestamp
        /\ Cardinality(assets) = 1

\* C12: a call with an asset type outside the three known ones fails, with
\* InvalidAssetClass when the quantity, price and timestamp checks pass,
\* without a provider call and with both tables left as they were; a known
\* asset type never fails with InvalidAssetClass and no Asset row has an
\* unknown type.
C12_InvalidAssetClass ==
    /\ [][\A p \in Procs :
            Called(p) =>
              LET r == req'[p] IN
                /\ r.asset_type \notin ASSET_TYPES
                   => /\ pc'[p] = "done"
                      /\ result'[p] \in {"InvalidQuantity", "InvalidPrice",
                                         "FutureTimestamp", "InvalidAssetClass"}
                      /\ (r.quantity > 0 /\ r.price > 0 /\ r.timestamp <= now)
                         => result'[p] = "InvalidAssetClass"
                      /\ ~fetched'[p]
                      /\ Unchanged
                /\ r.asset_type \in ASSET_TYPES
                   => result'[p] # "InvalidAssetClass"]_vars
    /\ [](\A p \in Procs :
            (pc[p] # "idle" /\ req[p].asset_type \notin ASSET_TYPES)
            => pc[p] = "done" /\ ~fetched[p])
    /\ [](\A a \in assets : a.asset_type \in ASSET_TYPES)

\* A buy of an unknown asset type with valid quantity, price and timestamp
\* failed with InvalidAssetClass in a portfolio that has transactions.
C12_Witness ==
    \E p \in Procs :
        /\ pc[p] = "done"
        /\ result[p] = "InvalidAssetClass"
        /\ req[p].transaction_type = "buy"
        /\ req[p].asset_type = "bond"
        /\ transactions # {}

\* C13: the provider is called only at the lookup of a buy that passed the
\* parameter checks and whose standardized symbol has no Asset row in the
\* portfolio; a handler that called it serves such a buy.
C13_ProviderOnlyOnFirstBuy ==
    /\ [][\A p \in Procs :
            (fetched'[p] /\ ~fetched[p])
            => /\ pc[p] = "lookup"
               /\ req[p].transaction_type = "buy"
               /\ Passes(req[p], now)
               /\ AssetRows(assets, req[p].portfolio, symbol[p]) = {}]_vars
    /\ [](\A p \in Procs :
            fetched[p]
            => /\ req[p].transaction_type = "buy"
               /\ result[p] \notin {"InvalidQuantity", "InvalidPrice",
                                     "FutureTimestamp", "InvalidAssetClass",
                                     "NoSuchHolding", "InsufficientHolding",
                                     "InvalidTransactionKind"})

\* A buy of a held symbol was accepted without a provider call.
C13_Witness ==
    \E p \in Procs :
        /\ pc[p] = "done"
        /\ result[p] = "ok"
        /\ req[p].transaction_type = "buy"
        /\ ~fetched[p]
        /\ \E a \in AssetRows(assets, req[p].portfolio, symbol[p]) :
              a.position > req[p].quantity

\* The provider call of handler p raised.
ProviderRaised(p) == fetched[p] /\ asset_info[p] = None

\* C14: when the provider call of a first buy raises, the call fails with
\* AssetInfoUnavailable in a step that leaves both tables as they were, and
\* afterwards the portfolio has neither an Asset row nor a Transaction row
\* of the requested symbol; AssetInfoUnavailable is reported for no other
\* reason.
C14_ProviderFailure ==
    /\ [][\A p \in Procs :
            (fetched'[p] /\ ~fetched[p] /\ asset_info'[p] = None)
            => /\ pc'[p] = "done"
               /\ result'[p] = "AssetInfoUnavailable"
               /\ Unchanged]_vars
    /\ [](\A p \in Procs :
            ProviderRaised(p)
            => /\ pc[p] = "done"
               /\ result[p] = "AssetInfoUnavailable"
               /\ asset[p] = None
               /\ AssetRows(assets, req[p].portfolio, symbol[p]) = {}
               /\ \A t \in transactions :
                     ~(/\ t.portfolio = req[p].portfolio
                       /\ t.asset_symbol = symbol[p]))
    /\ [](\A p \in Procs :
            result[p] = "AssetInfoUnavailable" => ProviderRaised(p))

\* The provider call of a first buy raised in a portfolio that holds another
\* asset.
C14_Witness ==
    \E p \in Procs :
        /\ ProviderRaised(p)
        /\ result[p] = "AssetInfoUnavailable"
        /\ req[p].transaction_type = "buy"
        /\ assets # {}
        /\ transactions # {}

\* C15: an accepted buy of a symbol without Asset row in the portfolio is a
\* first buy: it adds exactly one Asset row and changes no other; the row has
\* the bought quantity as position, the standardized symbol, the asset type
\* of the request, and the name, last price and sector that the provider
\* returned to this call.
C15_FirstBuy ==
    [][\A p \in Procs :
          (/\ Completes(p)
           /\ result'[p] = "ok"
           /\ req[p].transaction_type = "buy"
           /\ AssetRows(assets, req[p].portfolio, symbol[p]) = {})
          => /\ pc[p] = "create"
             /\ asset_info[p] # None
             /\ assets \subseteq assets'
             /\ assets' \ assets =
                  { [portfolio |-> req[p].portfolio,
                     symbol |-> standardize(req[p].asset_symbol,
                                            req[p].asset_type),
                     name |-> asset_info[p][1].name,
                     asset_type |-> req[p].asset_type,
                     position |-> req[p].quantity,
                     last_price |-> Some(asset_info[p][1].last_price),
                     sector |-> asset_info[p][1].sector] }]_vars

\* A first buy was accepted at an execution price that differs from the
\* quote of the provider, and the Asset row carries the quote.
C15_Witness ==
    \E p \in Procs :
        /\ pc[p] = "done"
        /\ result[p] = "ok"
        /\ fetched[p]
        /\ asset_info[p] # None
        /\ asset_info[p][1].last_price > 0
        /\ asset_info[p][1].last_price # req[p].price
        /\ \E a \in AssetRows(assets, req[p].portfolio, symbol[p]) :
              /\ a.last_price = Some(asset_info[p][1].last_price)
              /\ a.position = req[p].quantity

\* C16: an accepted call against an existing Asset row leaves that row with
\* the position moved by the quantity and every other attribute as it was,
\* and leaves every other Asset row as it was, whatever the execution price.
C16_OnlyPositionChanges ==
    [][\A p \in Procs :
          (/\ Completes(p)
           /\ result'[p] = "ok"
           /\ AssetRows(assets, req[p].portfolio, symbol[p]) # {})
          => \A a \in AssetRows(assets, req[p].portfolio, symbol[p]) :
                assets' =
                  (assets \ {a}) \cup
                  { [a EXCEPT !.position =
                        IF req[p].transaction_type = "sell"
                        THEN a.position - req[p].quantity
                        ELSE a.position + req[p].quantity] }]_vars

\* A sell of a part of a position was accepted at an execution price that
\* differs from the stored last price.
C16_Witness ==
    \E p \in Procs :
        /\ pc[p] = "done"
        /\ result[p] = "ok"
        /\ req[p].transaction_type = "sell"
        /\ \E a \in AssetRows(assets, req[p].portfolio, symbol[p]) :
              /\ a.position > 0
              /\ a.last_price # Some(req[p].price)

\* C17: in every state of interleaved calls a portfolio has at most one
\* Asset row per symbol, and a first buy that reaches its insert after
\* another call has created the Asset row of its symbol fails and leaves
\* both tables as they were.
C17_OneAssetPerSymbol ==
    /\ [](\A a, b \in assets : Key(a) = Key(b) => a = b)
    /\ [][\A p \in Procs :
            (/\ pc[p] = "create"
             /\ Completes(p)
             /\ AssetRows(assets, req[p].portfolio, symbol[p]) # {})
            => /\ result'[p] = "IntegrityError"
               /\ Unchanged]_vars

\* Of two interleaved first buys of one symbol the later one was rejected on
\* the symbol, its timestamp being unused, and the Asset row has the
\* position of the only recorded buy.
C17_Witness ==
    \E p \in Procs :
        /\ pc[p] = "done"
        /\ result[p] = "IntegrityError"
        /\ fetched[p]
        /\ asset[p] # None
        /\ \A t \in transactions : t.timestamp # req[p].timestamp
        /\ Cardinality(transactions) = 1
        /\ \E a \in AssetRows(assets, req[p].portfolio, symbol[p]) :
              \A t \in transactions : a.position = t.quantity

\* The transactions of portfolio pf stamped ts.
Stamped(txs, pf, ts) == {t \in txs : t.portfolio = pf /\ t.timestamp = ts}

\* C18: no two Transaction rows of one portfolio have the same timestamp; a
\* call that reaches its insert when its portfolio has a Transaction with
\* its timestamp fails and leaves both tables as they were; a call against
\* a held asset whose portfolio has none is accepted, whatever the
\* timestamps of the other portfolio.
C18_UniqueTimestamp ==
    /\ [](\A t, u \in transactions :
            (t.portfolio = u.portfolio /\ t.timestamp = u.timestamp) => t = u)
    /\ [][\A p \in Procs :
            (pc[p] \in {"save", "create"} /\ Completes(p))
            => LET taken == Stamped(transactions, req[p].portfolio,
                                    req[p].timestamp)
               IN  /\ taken # {} => result'[p] = "IntegrityError" /\ Unchanged
                   /\ (taken = {} /\ pc[p] = "save") => result'[p] = "ok"]_vars

\* One call was rejected on the timestamp of its portfolio while the two
\* portfolios have transactions with one timestamp.
C18_Witness ==
    /\ \E t, u \in transactions :
          t.portfolio # u.portfolio /\ t.timestamp = u.timestamp
    /\ \E p \in Procs :
          /\ pc[p] = "done"
          /\ result[p] = "IntegrityError"
          /\ Stamped(transactions, req[p].portfolio, req[p].timestamp) # {}

\* C19: the Transaction table only grows.  The step that ends an accepted
\* call adds exactly one row, which was not there and carries the portfolio,
\* the standardized symbol, the kind, the quantity, the price and the
\* timestamp of the request; the step that ends a rejected call and every
\* other step leave the table as it was.
C19_AppendOnly ==
    [][/\ transactions \subseteq transactions'
       /\ \A p \in Procs :
            Completes(p) =>
              LET r == req'[p]
                  row == [portfolio |-> r.portfolio,
                          asset_symbol |-> standardize(r.asset_symbol,
                                                       r.asset_type),
                          transaction_type |-> r.transaction_type,
                          quantity |-> r.quantity,
                          price |-> r.price,
                          timestamp |-> r.timestamp]
              IN  IF result'[p] = "ok"
                  THEN /\ row \notin transactions
                       /\ transactions' = transactions \cup {row}
                  ELSE transactions' = transactions
       /\ (\A p \in Procs : ~Completes(p))
          => transactions' = transactions]_vars

\* A call was accepted as the third transaction of the ledger while the
\* other handler's call was rejected.
C19_Witness ==
    \E p, q \in Procs :
        /\ pc[p] = "done"
        /\ result[p] = "ok"
        /\ symbol[p] # req[p].asset_symbol
        /\ new_transaction(req[p], symbol[p]) \in transactions
        /\ Cardinality(transactions) >= 3
        /\ pc[q] = "done"
        /\ result[q] \notin {"ok", "none"}

\* C20: the total cost of an asset follows its transaction history.  The
\* step that ends an accepted buy of its symbol in its portfolio raises it by
\* quantity x price, the one that ends an accepted sell lowers it by
\* quantity x price, the first buy of a symbol starts it at quantity x price,
\* and no other step changes it; it may be negative.
C20_TotalCost ==
    [][\A a \in assets' :
          LET before == total_cost(a, transactions)
              after == total_cost(a, transactions')
              ends == {p \in Procs : /\ Completes(p)
                                      /\ result'[p] = "ok"
                                      /\ req[p].portfolio = a.portfolio
                                      /\ symbol[p] = a.symbol}
          IN  /\ ends = {} => after = before
              /\ \A p \in ends :
                    /\ after = before +
                          (IF req[p].transaction_type = "buy"
                           THEN req[p].quantity * req[p].price
                           ELSE 0 - req[p].quantity * req[p].price)
                    /\ pc[p] = "create"
                       => after = req[p].quantity * req[p].price]_vars

\* A symbol was bought and then sold whole at a higher price: its position
\* is zero and its total cost is negative.
C20_Witness ==
    \E a \in assets :
        /\ a.position = 0
        /\ total_cost(a, transactions) < 0
        /\ \E b, t \in transactions :
              /\ b.transaction_type = "buy"
              /\ t.transaction_type = "sell"
              /\ b.quantity = t.quantity
              /\ total_cost(a, transactions)
                   = b.quantity * b.price - t.quantity * t.price

\* The transactions recorded for the symbol of asset a in its portfolio.
History(a) ==
    {t \in transactions : t.portfolio = a.portfolio /\ t.asset_symbol = a.symbol}

\* How often a trade of the given kind, quantity and price occurs in a
\* history.
Occurrences(history, kind, q, pr) ==
    Cardinality({t \in history : /\ t.transaction_type = kind
                                  /\ t.quantity = q
                                  /\ t.price = pr})

\* Two histories hold the same multiset of (kind, quantity, price).
SameTrades(h1, h2) ==
    \A t \in h1 \cup h2 :
        Occurrences(h1, t.transaction_type, t.quantity, t.price)
          = Occurrences(h2, t.transaction_type, t.quantity, t.price)

\* C21: two assets whose histories hold the same multiset of (kind,
\* quantity, price) have the same total cost, whatever the order and the
\* timestamps of their transactions.
C21_TotalCostOrderFree ==
    \A a, b \in assets :
        SameTrades(History(a), History(b))
        => total_cost(a, transactions) = total_cost(b, transactions)

\* Two portfolios recorded the same two buys at different prices in opposite
\* orders.
C21_Witness ==
    \E a, b \in assets :
        /\ a # b
        /\ SameTrades(History(a), History(b))
        /\ \E t \in History(a), u \in History(b) :
              /\ t.timestamp = u.timestamp
              /\ t.price # u.price
        /\ \E t, u \in History(a) : t.price # u.price

\* C22: the average cost of every asset is computed without a division by
\* zero; it is the quotient of total cost and position when the position is
\* positive and zero when the position is zero.
C22_AverageCost ==
    \A a \in assets :
        LET ac == average_cost(a, transactions) IN
          /\ ~ac.raised
          /\ a.position > 0
             => ac.num * a.position = total_cost(a, transactions) * ac.den
          /\ a.position = 0 => ac.num = 0

\* An asset was sold whole at a price other than its buying price: its
\* position is zero, its total cost is not, and its average cost is zero.
C22_Witness ==
    \E a \in assets :
        /\ a.position = 0
        /\ total_cost(a, transactions) # 0
        /\ average_cost(a, transactions) = Zero

\* C23: the market value of every asset is its position times its last
\* price when the price is known and zero when it is unknown, and its profit
\* or loss is its market value minus its total cost.
C23_MarketValue ==
    \A a \in assets :
        /\ a.last_price = <<>> => market_value(a) = 0
        /\ a.last_price # <<>>
           => market_value(a) = a.position * Head(a.last_price)
        /\ profit_loss(a, transactions)
             = market_value(a) - total_cost(a, transactions)

\* The portfolio holds an asset with a position and an unknown price next to
\* a traded asset whose market value differs from its total cost.
C23_Witness ==
    /\ \E a \in assets : a.last_price = <<>> /\ a.position > 0
    /\ \E a \in assets :
          /\ a.last_price # <<>>
          /\ a.position > 0
          /\ total_cost(a, transactions) > 0
          /\ profit_loss(a, transactions) < 0

\* C24: the value and the cost of a portfolio without assets are zero; those
\* of a portfolio with one asset are the market value and the total cost of
\* that asset, those of a portfolio with two assets the sums over the two;
\* an asset with an unknown price adds nothing to the value.
C24_PortfolioTotals ==
    \A pf \in Portfolios :
        LET own == {a \in assets : a.portfolio = pf}
            value == assets_value(pf, assets)
            cost == assets_cost(pf, assets, transactions)
        IN  /\ Cardinality(own) <= 2
            /\ own = {} => value = 0 /\ cost = 0
            /\ \A a \in own :
                  /\ own = {a}
                     => /\ value = market_value(a)
                        /\ cost = total_cost(a, transactions)
                  /\ \A b \in own \ {a} :
                        /\ value = market_value(a) + market_value(b)
                        /\ cost = total_cost(a, transactions)
                                    + total_cost(b, transactions)
                  /\ a.last_price = None
                     => value = assets_value(pf, assets \ {a})

\* The first portfolio holds a traded asset and an asset with a position and
\* an unknown price, the second one asset with a known price.
C24_Witness ==
    /\ \E a, b \in assets :
          /\ a.portfolio = "p1"
          /\ b.portfolio = "p1"
          /\ a.last_price = None
          /\ a.position > 0
          /\ b.last_price # None
          /\ b.position > 0
          /\ total_cost(b, transactions) > 0
    /\ \E c \in assets :
          c.portfolio = "p2" /\ c.last_price # None /\ c.position > 0

\* C25: every user whose creation has completed has exactly one portfolio.
C25_OnePortfolioPerUser ==
    \A u \in users \ post_save :
        Cardinality(PortfolioRows(portfolio_objects, u)) = 1

\* No user ever has two portfolios.
AtMostOnePortfolio ==
    \A u \in Users : Cardinality(PortfolioRows(portfolio_objects, u)) <= 1

\* The receiver of post_save leaves the new user with a portfolio, and a
\* create answered 400 leaves the Portfolio table as it was.
CreateKeepsPortfolio ==
    [][/\ \A u \in post_save \ post_save' :
             PortfolioRows(portfolio_objects', u) # {}
       /\ (response'["w1"] = 400 /\ response' # response)
            => portfolio_objects' = portfolio_objects]_vars

\* A user deleted the portfolio made at registration.
DeletedPortfolio ==
    \E u \in users \ post_save : PortfolioRows(portfolio_objects, u) = {}

\* C26: two handlers trade different symbols of one portfolio with distinct
\* timestamps.  The step that ends a call gives it the outcome the committed
\* rows of its own symbol and the recorded timestamps determine: a sell of more
\* than is held or of an unheld symbol is rejected, a first buy fails when the
\* provider gave no info, a taken timestamp is rejected, anything else is
\* accepted; an accepted call leaves one asset of its symbol whose position
\* is the committed one plus or minus its quantity, a rejected one leaves the
\* assets of its symbol as they were; and no step of a handler changes an
\* asset of another symbol.
C26_Independent ==
    [][\A p \in Procs :
          LET r == req'[p]
              sym == symbol'[p]
              mine(db) == {a \in db : a.portfolio = r.portfolio /\ a.symbol = sym}
              others(db) == db \ mine(db)
              held == mine(assets) # {}
              position == IF held
                          THEN (CHOOSE a \in mine(assets) : TRUE).position
                          ELSE 0
              taken == \E t \in transactions :
                          /\ t.portfolio = r.portfolio
                          /\ t.timestamp = r.timestamp
              outcome ==
                  IF r.transaction_type = "sell" /\ ~held THEN "NoSuchHolding"
                  ELSE IF r.transaction_type = "sell" /\ position < r.quantity
                  THEN "InsufficientHolding"
                  ELSE IF ~held /\ asset_info'[p] = None
                  THEN "AssetInfoUnavailable"
                  ELSE IF taken THEN "IntegrityError"
                  ELSE "ok"
              signed == IF r.transaction_type = "sell"
                        THEN 0 - r.quantity ELSE r.quantity
          IN  /\ (pc[p] # "idle" /\ pc'[p] # "idle" /\ pc'[p] # pc[p])
                 => others(assets') = others(assets)
              /\ (pc[p] # "idle" /\ Completes(p))
                 => /\ result'[p] = outcome
                    /\ outcome = "ok"
                       => /\ Cardinality(mine(assets')) = 1
                          /\ \A a \in mine(assets') :
                                a.position = position + signed
                    /\ outcome # "ok" => mine(assets') = mine(assets)]_vars

\* Both handlers have ended a call that was accepted: the first a sell of
\* one of its two B, the second the first buy of C.
C26_Witness ==
    /\ Cardinality(transactions) = 3
    /\ \E a, b \in assets :
          /\ a.symbol = <<"B">> /\ a.position = 1
          /\ b.symbol = <<"C">> /\ b.position > 0
    /\ pc["w1"] = "done" /\ result["w1"] = "ok"
    /\ req["w1"].transaction_type = "sell"
    /\ pc["w2"] = "done" /\ result["w2"] = "ok"
    /\ req["w2"].transaction_type = "buy"

\* C27: a call whose kind is neither buy nor sell and whose parameters pass
\* the checks reaches the lookup, leaves it with InvalidTransactionKind
\* whether or not the symbol is held, and never calls the provider; no step
\* taken while a handler serves such a call changes a table.
C27_InvalidKind ==
    /\ [][\A p \in Procs :
            LET r == req'[p]
                unknown == r.transaction_type \notin {"buy", "sell"}
            IN  /\ (Called(p) /\ unknown /\ Passes(r, now))
                   => pc'[p] = "lookup"
                /\ (pc[p] = "lookup" /\ pc'[p] # "lookup" /\ unknown)
                   => /\ pc'[p] = "done"
                      /\ result'[p] = "InvalidTransactionKind"
                /\ (pc'[p] # "idle" /\ unknown)
                   => /\ ~fetched'[p]
                      /\ Unchanged]_vars
    /\ [](\A p \in Procs :
            result[p] = "InvalidTransactionKind"
            => req[p].transaction_type \notin {"buy", "sell"})

\* A call of unknown kind on a held symbol was rejected for its kind.
C27_Witness ==
    \E p \in Procs :
        /\ pc[p] = "done"
        /\ result[p] = "InvalidTransactionKind"
        /\ req[p].transaction_type = "swap"
        /\ \E a \in assets :
              /\ a.portfolio = req[p].portfolio
              /\ a.symbol = symbol[p]
              /\ a.position > 0

\* A call of unknown kind on a symbol that is not held was rejected for its
\* kind.
UnheldInvalidKind ==
    \E p \in Procs :
        /\ pc[p] = "done"
        /\ result[p] = "InvalidTransactionKind"
        /\ \A a \in assets :
              ~(a.portfolio = req[p].portfolio /\ a.symbol = symbol[p])

\* C28: an iteration of the price refresh changes at most the last_price of
\* the asset it visits, and leaves even that as it was when the lookup fails;
\* the position of every asset stays the recorded buys minus the recorded
\* sells of its symbol in every interleaving of the refresh with calls made
\* one at a time.
C28_RefreshOnlyPrice ==
    /\ [][rassets' # rassets /\ rpc = "loop"
          => \A a \in assets' :
                \E b \in assets :
                    a = [b EXCEPT !.last_price = a.last_price]]_vars
    /\ [](\A a \in assets :
            a.position = Bought(a.portfolio, a.symbol)
                           - Sold(a.portfolio, a.symbol))

\* The refresh step changes no column but last_price of the committed row it
\* writes to.
RefreshWritesPriceColumn ==
    [][rassets' # rassets /\ rpc = "loop"
          => \A a \in assets' :
                \E b \in assets :
                    a = [b EXCEPT !.last_price = a.last_price]]_vars

\* The position of every asset is the recorded buys minus the recorded sells.
PositionFollowsLedger ==
    \A a \in assets :
        a.position = Bought(a.portfolio, a.symbol) - Sold(a.portfolio, a.symbol)

\* C29: a step of a handler leaves the Asset and Transaction rows of every
\* portfolio but the one of its call as they were.  Its lookup is decided by
\* the rows of its own portfolio alone: a sell fails with NoSuchHolding when
\* its portfolio has no asset of the symbol, a buy then goes to the provider,
\* and a call that finds an asset of its portfolio is rejected when it sells
\* more than that asset's position and else computes its new position from
\* it, whatever the other portfolio holds; an accepted call leaves the asset
\* of its portfolio with the position it computed.
C29_PortfolioFrame ==
    [][\A p \in Procs :
          LET r == req'[p]
              foreign(db) == {row \in db : row.portfolio # r.portfolio}
              own == {a \in assets : /\ a.portfolio = r.portfolio
                                     /\ a.symbol = symbol'[p]}
          IN  /\ (pc'[p] # pc[p] /\ pc'[p] # "idle")
                 => /\ foreign(assets') = foreign(assets)
                    /\ foreign(transactions') = foreign(transactions)
              /\ (pc[p] = "lookup" /\ pc'[p] # "lookup")
                 => /\ (own = {} /\ r.transaction_type = "sell")
                       => result'[p] = "NoSuchHolding"
                    /\ (own = {} /\ r.transaction_type = "buy")
                       => fetched'[p]
                    /\ \A a \in own :
                          /\ ~fetched'[p]
                          /\ IF /\ r.transaction_type = "sell"
                                /\ a.position < r.quantity
                             THEN result'[p] = "InsufficientHolding"
                             ELSE /\ pc'[p] = "save"
                                  /\ asset'[p][1].position
                                       = a.position
                                         + (IF r.transaction_type = "buy"
                                            THEN r.quantity
                                            ELSE 0 - r.quantity)
              /\ (Completes(p) /\ result'[p] = "ok")
                 => /\ asset[p][1].portfolio = r.portfolio
                    /\ asset[p][1] \in assets']_vars

\* A sell in the second portfolio failed because it did not hold the symbol
\* the first one held; the two portfolios now hold it with different
\* positions.
C29_Witness ==
    /\ \E p \in Procs :
          /\ pc[p] = "done"
          /\ result[p] = "NoSuchHolding"
          /\ req[p].portfolio = "p2"
          /\ \E t \in transactions :
                /\ t.portfolio = "p1"
                /\ t.asset_symbol = symbol[p]
                /\ t.timestamp <= req[p].timestamp
    /\ \E a, b \in assets :
          /\ a.portfolio = "p1"
          /\ b.portfolio = "p2"
          /\ a.symbol = b.symbol
          /\ a.position = 2
          /\ b.position = 1

\* The body describes a transaction the ledger accepts.
Acceptable(data) ==
    /\ is_valid(data)
    /\ data.asset_type \in ASSET_TYPES
    /\ data.transaction_type = "buy"
    /\ data.quantity > 0
    /\ data.price > 0

\* C30: when the transaction view answers a POST whose body is valid and
\* describes an acceptable buy, it has called add_transaction once, with the
\* symbol, asset class, kind, quantity and price of the body and a timestamp
\* that is not None and not in the future, and it answers 201 with the
\* transaction recorded unless the provider or the timestamp constraint made
\* the ledger refuse; it never answers 201 after add_transaction raised.
C30_PostRecords ==
    [][\A p \in Procs :
          (posted[p] # None /\ posted'[p] = None)
          => LET data == posted[p][1]
                 calls == invoked[p]
             IN  /\ Acceptable(data)
                    => /\ Len(calls) = 1
                       /\ calls[1].asset_symbol = data.asset_symbol
                       /\ calls[1].asset_type = data.asset_type
                       /\ calls[1].transaction_type = data.transaction_type
                       /\ calls[1].quantity = data.quantity
                       /\ calls[1].price = data.price
                       /\ calls[1].timestamp # NoTimestamp
                       /\ calls[1].timestamp <= now
                       /\ result[p] \notin {"AssetInfoUnavailable",
                                             "IntegrityError"}
                          => /\ response'[p] = 201
                             /\ new_transaction(calls[1], symbol[p])
                                  \in transactions
                 /\ response'[p] = 201 => result[p] = "ok"]_vars

\* The view never answers 201 after add_transaction raised.
No201AfterRaise ==
    [][\A p \in Procs :
          (posted[p] # None /\ posted'[p] = None /\ response'[p] = 201)
          => result[p] = "ok"]_vars

\* The transaction view never answers 201.
Never201 == \A p \in Procs : response[p] # 201

\* The view called add_transaction for an acceptable buy.
PostedAcceptable ==
    \E p \in Procs :
        /\ posted[p] # None
        /\ Acceptable(posted[p][1])
        /\ pc[p] = "done"

====
